---- MODULE Spec2Model ----
(***************************************************************************)
(* Rule-catalog scrapers: sonar_rule_scraper.py (SonarRuleScraper),        *)
(* pmd_test.py (scrape_language) and check.py (CheckstyleScraper and its   *)
(* multi-category entry point).  One behaviour is one invocation history   *)
(* of one of the three scripts; prog says which script is running.         *)
(* DiscoverySpec is get_rule_links alone over several layouts of the       *)
(* listing pages; PoolSpec is the two thread pools of check.py by counts.  *)
(***************************************************************************)
EXTENDS Integers, Sequences, FiniteSets, Bags, TLC

\* ------------------------------------------------------------------ bounds
NumRules == 5          \* rule links the Sonar listing page shows
MaxConcurrency == 2    \* largest value of SonarRuleScraper.concurrency tried
MaxSaveEvery == 2      \* largest value of SonarRuleScraper.save_every tried
MaxRuns == 2           \* consecutive invocations of the Sonar script
NumCats == 3           \* Checkstyle categories scraped in one go
NumPoolCats == 11      \* categories submitted to the outer pool (PoolSpec)
NumPoolLinks == 9      \* rule links of a category's index page (PoolSpec)

\* ------------------------------------------------------- program constants
BASE == "https://rules.sonarsource.com"
MinPageSize == 10
CONCURRENCY == 6
MAX_GLOBAL_WORKERS == 10
max_workers == 8

VARIABLES
    prog,         \* which script runs: "sonar" | "pmd" | "checkstyle"
    site,         \* the layout of the Sonar listing pages the site serves
    \* ---- sonar_rule_scraper.py
    pc,           \* position of SonarRuleScraper.run
    fault,        \* why run() raised: "none" | "resume" | "fetch" | "parse" | "storage"
    run,          \* number of the current invocation
    prevExit,     \* how the previous invocation ended
    concurrency,  \* self.concurrency
    save_every,   \* self.save_every
    semaphore,    \* value of self.semaphore
    waiters,      \* tasks blocked in "async with self.semaphore", FIFO
    listFetch,    \* TRUE while get_rule_links has a listing request in flight
    results,      \* self.results
    existing,     \* the records run() loaded from the output file
    seen_urls,    \* self.seen_urls
    page,         \* get_rule_links: page
    links,        \* get_rule_links: links
    pending,      \* run: pending (one task per entry)
    st,           \* state of each task of pending
    chunk_start,  \* run: chunk_start
    saveRet,      \* which call of _save is executing: "ckpt" | "final"
    files,        \* the files of the working directory, by name
    sonar_log,    \* the tasks of pending a warn or err entry of the log names
    \* ---- pmd_test.py
    ppc,          \* position of scrape_language
    indexFetch,   \* TRUE while the request for the index page is in flight
    index_html,   \* scrape_language: index_html
    detected,     \* scrape_language: detected
    rulesets,     \* scrape_language: out["rulesets"]
    sem,          \* value of sem
    sem_waiters,  \* tasks blocked in "async with sem", FIFO
    rs_state,     \* state of each fetch_and_parse task of detected
    err,          \* why scrape_language raised: "none" | "fetch" | "parse"
    pmd_log,      \* the tasks of detected a warning or error of the log names
    \* ---- check.py
    mpc,          \* position of the entry point
    cat_state,    \* state of the task of each category
    rule_links,   \* scrape: rule_links, per category
    rule_state,   \* state of the task of each entry of rule_links
    rules,        \* scrape: rules, per category
    combined_data,\* the entry point's combined_data
    check_log,    \* the entries of rule_links an error of the log names, per category
    combined_file,\* content of all_checkstyle_rules_combined.json
    \* ---- check.py, the two ThreadPoolExecutors by numbers of tasks (PoolSpec)
    pool_pc,      \* position of the entry point
    cat_queue,    \* the run_scraper_for_category tasks not started yet
    workers       \* bag of the busy workers of the outer pool, each with the
                  \* phase of its scrape and the queued and running tasks of
                  \* that scrape's own pool

sonarVars == <<pc, fault, run, prevExit, concurrency, save_every, semaphore,
               waiters, listFetch, results, existing, seen_urls, page, links,
               pending, st, chunk_start, saveRet, files, sonar_log>>

pmdVars == <<ppc, indexFetch, index_html, detected, rulesets, sem, sem_waiters,
             rs_state, err, pmd_log>>

poolVars == <<pool_pc, cat_queue, workers>>

checkVars == <<mpc, cat_state, rule_links, rule_state, rules, combined_data,
               check_log, combined_file, poolVars>>

vars == <<prog, site, sonarVars, pmdVars, checkVars>>

\* ---------------------------------------------------------------- helpers
Min(a, b) == IF a < b THEN a ELSE b

SeqToSet(s) == {s[i] : i \in 1..Len(s)}

\* ------------------------------------------------------------ file contents
\* A file is missing, holds text that is no JSON ("invalid"), a JSON object
\* ("object"), a half-written dump ("partial") or a JSON list of records.
File(kind, recs) == [kind |-> kind, recs |-> recs]
Missing == File("missing", <<>>)
ListOf(recs) == File("list", recs)

\* ------------------------------------------------------------------- URLs
\* A URL string is its scheme+host part ("" for a relative URL) and its path.
Url(host, path) == [host |-> host, path |-> path]

\* The anchor of rule n on a listing page: href="/<lang>/RSPEC-<n>".
Href(n) == Url("", n)

\* full = href if href.startswith("http") else (self.BASE + href)
FullUrl(href) == IF href.host # "" THEN href ELSE Url(BASE, href.path)

\* re.sub(r"^https?://[^/]+", "", u)
StripHost(u) == Url("", u.path)

\* f"{self.BASE}{url_path}"
BaseJoin(url_path) == Url(BASE, url_path.path)

\* sorted(S) for a set of relative URLs (rule numbers of one digit sort as
\* their strings do)
RECURSIVE SortedUrls(_)
SortedUrls(S) ==
    IF S = {} THEN <<>>
    ELSE LET m == CHOOSE u \in S : \A v \in S : u.path <= v.path
         IN <<m>> \o SortedUrls(S \ {m})

\* the anchors of rules a..b, in ascending order
Hrefs(a, b) == [i \in 1..(b - a + 1) |-> Href(a + i - 1)]

\* The layouts of the listing pages (?page=p):
\*   "one_short"  page 1 shows every rule, the first one twice and in
\*                descending order; later pages show nothing
\*   "paged"      page 1 is full (MinPageSize rules), page 2 shows three
\*                more, page 3 two more
\*   "full_pages" pages 1 and 2 are full, later pages show nothing
\*   "unpaged"    the site ignores ?page and always shows the same
\*                MinPageSize + 2 rules
Sites == {"one_short", "paged", "full_pages", "unpaged"}

ListingPage(p) ==
    CASE site = "one_short" ->
           IF p = 1
           THEN [i \in 1..NumRules |-> Href(NumRules + 1 - i)] \o <<Href(NumRules)>>
           ELSE <<>>
      [] site = "paged" ->
           IF p = 1 THEN Hrefs(1, MinPageSize)
           ELSE IF p = 2 THEN Hrefs(MinPageSize + 1, MinPageSize + 3)
           ELSE IF p = 3 THEN Hrefs(MinPageSize + 4, MinPageSize + 5)
           ELSE <<>>
      [] site = "full_pages" ->
           IF p \in {1, 2} THEN Hrefs((p - 1) * MinPageSize + 1, p * MinPageSize)
           ELSE <<>>
      [] OTHER -> Hrefs(1, MinPageSize + 2)

\* get_rule_links, the loop over soup.select(css): the new links of one page
RECURSIVE FoundOnPage(_, _)
FoundOnPage(hrefs, seen) ==
    IF hrefs = <<>> THEN <<>>
    ELSE LET href == Head(hrefs)
         IN IF href \notin seen
            THEN <<FullUrl(href)>> \o FoundOnPage(Tail(hrefs), seen \cup {href})
            ELSE FoundOnPage(Tail(hrefs), seen)

\* a _parse_rule_html that records the relative URL of the page
ParseRuleHtml_PathOnly(url_path) == [rule_id |-> url_path.path, url |-> url_path]

\* _parse_rule_html: the record of a rule page
ParseRuleHtml(url_path) == [rule_id |-> url_path.path, url |-> BaseJoin(url_path)]

\* run: done_urls and pending
DoneUrls(recs) == {recs[i].url : i \in 1..Len(recs)}

\* a run that takes every discovered link as pending
IsPending_All(u, recs) == TRUE

IsPending(u, recs) == BaseJoin(u) \notin DoneUrls(recs)

\* a run that starts from scratch: every discovered link is pending
PendingOf_Scratch(normalized, recs) == normalized

PendingOf(normalized, recs) ==
    LET keep(u) == IsPending(u, recs) IN SelectSeq(normalized, keep)

\* get_rule_links: normalized
Normalized(ls) == SortedUrls({StripHost(ls[i]) : i \in 1..Len(ls)})

\* run: the tasks of the chunk that starts at chunk_start
ChunkSize(c) == c * 2

\* a run whose chunks start over at the first task
Chunk_FromFirst(start, c, n) == 1..Min(start + ChunkSize(c), n)

Chunk(start, c, n) == (start + 1)..Min(start + ChunkSize(c), n)

\* ----------------------------------------------------------- sonar: state
\* SonarRuleScraper.__init__
SonarFresh ==
    /\ semaphore' = concurrency
    /\ waiters' = <<>>
    /\ listFetch' = FALSE
    /\ results' = ListOf(<<>>)
    /\ existing' = <<>>
    /\ seen_urls' = {}
    /\ page' = 1
    /\ links' = <<>>
    /\ pending' = <<>>
    /\ st' = <<>>
    /\ chunk_start' = 0
    /\ saveRet' = "none"
    /\ fault' = "none"
    /\ sonar_log' = {}

SonarInit ==
    /\ pc = "new"
    /\ fault = "none"
    /\ run = 1
    /\ prevExit = "none"
    /\ concurrency \in (IF prog = "sonar" THEN 1..MaxConcurrency ELSE {1})
    /\ save_every \in (IF prog = "sonar" THEN 1..MaxSaveEvery ELSE {1})
    /\ semaphore = concurrency
    /\ waiters = <<>>
    /\ listFetch = FALSE
    /\ results = ListOf(<<>>)
    /\ existing = <<>>
    /\ seen_urls = {}
    /\ page = 1
    /\ links = <<>>
    /\ pending = <<>>
    /\ st = <<>>
    /\ chunk_start = 0
    /\ saveRet = "none"
    /\ sonar_log = {}
    /\ files \in {[out_file |-> f, tmp |-> Missing] :
                    f \in (IF prog = "sonar"
                           THEN {Missing, File("invalid", <<>>), File("object", <<>>)}
                           ELSE {Missing})}

\* ------------------------------------------------------- sonar: actions
\* out_file = f"{self.language}_rules.json"
OutFile == "out_file"

\* a _save that dumps into the output file itself
TmpPath_InPlace(path) == path

\* _save: tmp = path + ".tmp"
TmpPath(path) == "tmp"

\* open(name, "w") followed by the first part of the dump
OpenForWrite(fs, name) == [fs EXCEPT ![name] = File("partial", <<>>)]

\* the rest of json.dump and the close of the file
WriteAll(fs, name, content) == [fs EXCEPT ![name] = content]

\* os.replace(src, dst)
Replace(fs, src, dst) ==
    IF src = dst THEN fs
    ELSE [fs EXCEPT ![dst] = fs[src], ![src] = Missing]

\* run: what self.results is after the resume block, for an output file f
LoadResults(f) ==
    IF f.kind = "list" THEN ListOf(f.recs)
    ELSE IF f.kind = "object" THEN File("object", <<>>)
    ELSE ListOf(<<>>)

\* run: the resume block (json.load, self.results = existing)
Run_Resume ==
    /\ prog = "sonar" /\ pc = "new"
    /\ results' = LoadResults(files[OutFile])
    /\ existing' = results'.recs
    /\ pc' = "get_links"
    /\ UNCHANGED <<prog, site, pmdVars, checkVars, sonar_log, fault, run, prevExit, concurrency, save_every,
                   semaphore, waiters, listFetch, seen_urls, page, links,
                   pending, st, chunk_start, saveRet, files>>

\* a gate that lets every task pass
CanAcquire_Ungated(value) == TRUE

\* asyncio.Semaphore: a task passes "async with" only with a positive value
CanAcquire(value) == value > 0

\* a gate whose permit is not given back when the request raises
Release_NotOnException(value, outcome) ==
    IF outcome \in {"timeout", "exception"} THEN value ELSE value + 1

\* asyncio.Semaphore: the end of "async with", for every end of its body
Release(value, outcome) == value + 1

\* get_rule_links -> _fetch(list_url): the request is sent
GetRuleLinks_Fetch ==
    /\ prog = "sonar" /\ pc = "get_links"
    /\ CanAcquire(semaphore)
    /\ semaphore' = semaphore - 1
    /\ listFetch' = TRUE
    /\ pc' = "list_wait"
    /\ UNCHANGED <<prog, site, pmdVars, checkVars, sonar_log, fault, run, prevExit, concurrency, save_every,
                   waiters, results, existing, seen_urls, page, links,
                   pending, st, chunk_start, saveRet, files>>

\* what a request can end with: HTTP 200, another status, a timeout, another
\* exception
FetchOutcomes == {"ok", "status", "timeout", "exception"}

\* a _fetch whose except clauses miss the timeout
Sonar_fetch_TimeoutEscapes(outcome) ==
    IF outcome = "ok" THEN "html"
    ELSE IF outcome = "timeout" THEN "raises"
    ELSE "None"

\* _fetch: what it hands to its caller for each end of the request: the
\* text of the page, None, or the exception ("raises")
Sonar_fetch(outcome) == IF outcome = "ok" THEN "html" ELSE "None"

\* get_rule_links: the listing request ends and the loop body runs
GetRuleLinks_Page ==
    /\ prog = "sonar" /\ pc = "list_wait"
    /\ \E outcome \in FetchOutcomes :
         LET hrefs == ListingPage(page)
             found == FoundOnPage(hrefs, seen_urls)
             html == Sonar_fetch(outcome)
         IN /\ semaphore' = Release(semaphore, outcome)
            /\ listFetch' = FALSE
            /\ fault' = IF html = "raises" THEN "fetch" ELSE fault
            /\ IF html # "html"
               THEN /\ pc' = IF html = "raises" THEN "crashed" ELSE "links_done"
                    /\ UNCHANGED <<seen_urls, links, page>>
               ELSE /\ seen_urls' = seen_urls \cup SeqToSet(hrefs)
                    /\ IF found = <<>>
                       THEN /\ pc' = "links_done"
                            /\ UNCHANGED <<links, page>>
                       ELSE /\ links' = links \o found
                            /\ IF Len(found) < MinPageSize
                               THEN pc' = "links_done" /\ UNCHANGED page
                               ELSE pc' = "get_links" /\ page' = page + 1
    /\ UNCHANGED <<prog, site, pmdVars, checkVars, sonar_log, run, prevExit, concurrency, save_every,
                   waiters, results, existing, pending, st, chunk_start,
                   saveRet, files>>

\* run: done_urls, pending and tasks, after get_rule_links has returned
Run_Pending ==
    /\ prog = "sonar" /\ pc = "links_done"
    /\ IF results.kind # "list"
       THEN /\ pc' = "crashed"
            /\ fault' = "resume"
            /\ UNCHANGED <<pending, st>>
       ELSE /\ pending' = PendingOf(Normalized(links), results.recs)
            /\ st' = [i \in 1..Len(pending') |-> "created"]
            /\ pc' = "chunk"
            /\ UNCHANGED fault
    /\ UNCHANGED <<prog, site, pmdVars, checkVars, sonar_log, run, prevExit, concurrency, save_every, semaphore,
                   waiters, listFetch, results, existing, seen_urls, page,
                   links, chunk_start, saveRet, files>>

\* how many of n tasks reaching "async with self.semaphore" pass at once
Admitted(value, n) == Min(value, n)

\* run: the head of the chunk loop; gather starts the tasks of the chunk, each
\* running up to its request or to the semaphore
Run_Chunk ==
    /\ prog = "sonar" /\ pc = "chunk"
    /\ IF chunk_start < Len(pending)
       THEN LET ch == Chunk(chunk_start, concurrency, Len(pending))
                k == Admitted(semaphore, Cardinality(ch))
            IN /\ st' = [i \in 1..Len(pending) |->
                           IF i \in ch
                           THEN (IF i <= chunk_start + k
                                 THEN "inflight" ELSE "waiting")
                           ELSE st[i]]
               /\ waiters' = [j \in 1..(Cardinality(ch) - k) |->
                                chunk_start + k + j]
               /\ semaphore' = semaphore - k
               /\ pc' = "gather"
               /\ UNCHANGED saveRet
       ELSE /\ pc' = "save_open"
            /\ saveRet' = "final"
            /\ UNCHANGED <<st, waiters, semaphore>>
    /\ UNCHANGED <<prog, site, pmdVars, checkVars, sonar_log, fault, run, prevExit, concurrency, save_every,
                   listFetch, results, existing, seen_urls, page, links,
                   pending, chunk_start, files>>

\* what the request and the parse of one rule page can end with
ItemOutcomes == FetchOutcomes \cup {"parse_raises"}

\* the end of the request of an item
RequestOf(outcome) == IF outcome = "parse_raises" THEN "ok" ELSE outcome

\* a fetch-and-parse task after its request ended with outcome and the fetch
\* function handed ret to it: completed, failed (no page) or raised (an
\* exception leaves the task)
ItemStateOf(ret, outcome) ==
    IF ret = "raises" THEN "raised"
    ELSE IF ret = "None" THEN "failed"
    ELSE IF outcome = "parse_raises" THEN "raised"
    ELSE "completed"

\* the exception that leaves the task, if any
FaultOf(ret, outcome) ==
    IF ret = "raises" THEN "fetch"
    ELSE IF ret # "None" /\ outcome = "parse_raises" THEN "parse"
    ELSE "none"

\* process_one after its request ended: the task's state
ItemState(outcome) == ItemStateOf(Sonar_fetch(RequestOf(outcome)), outcome)

\* a process_one that also keeps a record of a page it could not fetch
Append_Result_Always(res, outcome, url_path) ==
    IF outcome = "parse_raises" THEN res
    ELSE ListOf(Append(res.recs, ParseRuleHtml(url_path)))

\* a process_one that appends the record of a page twice
Append_Result_Twice(res, outcome, url_path) ==
    IF outcome = "ok"
    THEN ListOf(res.recs \o <<ParseRuleHtml(url_path), ParseRuleHtml(url_path)>>)
    ELSE res

\* process_one: self.results.append(parsed)
Append_Result(res, outcome, url_path) ==
    IF ItemState(outcome) = "completed"
    THEN ListOf(Append(res.recs, ParseRuleHtml(url_path)))
    ELSE res

\* _fetch: the ends of a request it writes a warn or err entry for
Sonar_fetch_logs(outcome) == outcome \in {"status", "timeout", "exception"}

\* process_one: the task has an entry of _fetch or its own SKIP entry
ProcessOne_logs(outcome) ==
    Sonar_fetch_logs(RequestOf(outcome)) \/ ItemState(outcome) = "failed"

\* process_one: the request of task i ends (_fetch leaves the semaphore), the
\* page is parsed and the record appended; an exception of the parse leaves
\* process_one and gather re-raises it in run
ProcessOne_Done(i) ==
    /\ prog = "sonar" /\ pc = "gather"
    /\ st[i] = "inflight"
    /\ \E outcome \in ItemOutcomes :
         /\ st' = [st EXCEPT ![i] = ItemState(outcome)]
         /\ results' = Append_Result(results, outcome, pending[i])
         /\ sonar_log' = IF ProcessOne_logs(outcome) THEN sonar_log \cup {i}
                         ELSE sonar_log
         /\ semaphore' = Release(semaphore, RequestOf(outcome))
         /\ IF ItemState(outcome) = "raised"
            THEN /\ pc' = "crashed"
                 /\ fault' = FaultOf(Sonar_fetch(RequestOf(outcome)), outcome)
            ELSE UNCHANGED <<pc, fault>>
    /\ UNCHANGED <<prog, site, pmdVars, checkVars, run, prevExit, concurrency, save_every, waiters,
                   listFetch, existing, seen_urls, page, links, pending,
                   chunk_start, saveRet, files>>

\* asyncio.Semaphore: the longest-waiting task passes "async with"
Semaphore_Wake ==
    /\ prog = "sonar" /\ pc = "gather"
    /\ waiters # <<>>
    /\ CanAcquire(semaphore)
    /\ semaphore' = semaphore - 1
    /\ st' = [st EXCEPT ![Head(waiters)] = "inflight"]
    /\ waiters' = Tail(waiters)
    /\ UNCHANGED <<prog, site, pmdVars, checkVars, sonar_log, pc, fault, run, prevExit, concurrency, save_every,
                   listFetch, results, existing, seen_urls, page, links,
                   pending, chunk_start, saveRet, files>>

\* run: if len(self.results) >= self.save_every
NeedsCheckpoint(n, every) == n >= every

\* run: gather returns for the chunk; the periodic save
Run_Gathered ==
    /\ prog = "sonar" /\ pc = "gather"
    /\ \A i \in Chunk(chunk_start, concurrency, Len(pending)) :
         st[i] \in {"completed", "failed"}
    /\ IF NeedsCheckpoint(Len(results.recs), save_every)
       THEN /\ pc' = "save_open"
            /\ saveRet' = "ckpt"
            /\ UNCHANGED chunk_start
       ELSE /\ pc' = "chunk"
            /\ chunk_start' = chunk_start + ChunkSize(concurrency)
            /\ UNCHANGED saveRet
    /\ UNCHANGED <<prog, site, pmdVars, checkVars, sonar_log, fault, run, prevExit, concurrency, save_every,
                   semaphore, waiters, listFetch, results, existing,
                   seen_urls, page, links, pending, st, files>>

\* what a call of the file system can end with: done, or an OSError
StorageOutcomes == {"ok", "error"}

\* run: where it goes on after a step of _save; _save catches nothing and run
\* calls it outside any try, so an OSError leaves run
AfterSave(outcome, next) == IF outcome = "ok" THEN next ELSE "crashed"

SaveFault(outcome, old) == IF outcome = "ok" THEN old ELSE "storage"

\* _save: open(tmp, "w")
Save_Open ==
    /\ prog = "sonar" /\ pc = "save_open"
    /\ \E outcome \in StorageOutcomes :
         /\ files' = IF outcome = "ok" THEN OpenForWrite(files, TmpPath(OutFile))
                     ELSE files
         /\ pc' = AfterSave(outcome, "save_write")
         /\ fault' = SaveFault(outcome, fault)
    /\ UNCHANGED <<prog, site, pmdVars, checkVars, sonar_log, run, prevExit, concurrency, save_every,
                   semaphore, waiters, listFetch, results, existing,
                   seen_urls, page, links, pending, st, chunk_start, saveRet>>

\* _save: json.dump(self.results, f) and the end of the with block
Save_Dump ==
    /\ prog = "sonar" /\ pc = "save_write"
    /\ \E outcome \in StorageOutcomes :
         /\ files' = IF outcome = "ok" THEN WriteAll(files, TmpPath(OutFile), results)
                     ELSE files
         /\ pc' = AfterSave(outcome, "save_replace")
         /\ fault' = SaveFault(outcome, fault)
    /\ UNCHANGED <<prog, site, pmdVars, checkVars, sonar_log, run, prevExit, concurrency, save_every,
                   semaphore, waiters, listFetch, results, existing,
                   seen_urls, page, links, pending, st, chunk_start, saveRet>>

\* _save: os.replace(tmp, path), and the return into run
Save_Replace ==
    /\ prog = "sonar" /\ pc = "save_replace"
    /\ \E outcome \in StorageOutcomes :
         /\ files' = IF outcome = "ok" THEN Replace(files, TmpPath(OutFile), OutFile)
                     ELSE files
         /\ fault' = SaveFault(outcome, fault)
         /\ IF outcome = "ok" /\ saveRet # "final"
            THEN /\ pc' = "chunk"
                 /\ chunk_start' = chunk_start + ChunkSize(concurrency)
            ELSE /\ pc' = AfterSave(outcome, "done")
                 /\ UNCHANGED chunk_start
    /\ UNCHANGED <<prog, site, pmdVars, checkVars, sonar_log, run, prevExit, concurrency, save_every,
                   semaphore, waiters, listFetch, results, existing,
                   seen_urls, page, links, pending, st, saveRet>>

Ended == pc \in {"done", "crashed", "killed"}

\* the process is interrupted (killed): its memory is gone, the files stay as
\* they are
Kill ==
    /\ prog = "sonar" /\ ~Ended
    /\ pc' = "killed"
    /\ SonarFresh
    /\ UNCHANGED <<prog, site, pmdVars, checkVars, run, prevExit, concurrency, save_every, files>>

\* run_scraper is invoked again: a new SonarRuleScraper and run(resume=True)
Run_Again ==
    /\ prog = "sonar" /\ Ended
    /\ run < MaxRuns
    /\ run' = run + 1
    /\ prevExit' = pc
    /\ pc' = "new"
    /\ SonarFresh
    /\ UNCHANGED <<prog, site, pmdVars, checkVars, concurrency, save_every, files>>

SonarNext ==
    \/ Run_Resume
    \/ GetRuleLinks_Fetch
    \/ GetRuleLinks_Page
    \/ Run_Pending
    \/ Run_Chunk
    \/ \E i \in 1..Len(pending) : ProcessOne_Done(i)
    \/ Semaphore_Wake
    \/ Run_Gathered
    \/ Save_Open
    \/ Save_Dump
    \/ Save_Replace
    \/ Kill
    \/ Run_Again

\* ------------------------------------------------------------ pmd_test.py
\* A label is the sequence of its words and separators ("#best-practices" is
\* <<"#", "best", "-", "practices">>); a ruleset name is the sequence of its
\* lower-case words, read as their concatenation.
FALLBACK_RULESETS ==
    << <<"best", "practices">>, <<"code", "style">>, <<"design">>,
       <<"documentation">>, <<"error", "prone">>, <<"performance">>,
       <<"security">>, <<"multithreading">> >>

\* str.lower() of one word
LowerWord(w) ==
    CASE w = "Best" -> "best"
      [] w = "Practices" -> "practices"
      [] w = "Design" -> "design"
      [] w = "Additional" -> "additional"
      [] w = "Custom" -> "custom"
      [] w = "Rules" -> "rules"
      [] OTHER -> w

\* the characters [^A-Za-z0-9] that occur in the labels
IsAlnumWord(w) == w \notin {"#", "-", " "}

\* re.sub(r'[^A-Za-z0-9]', '', h).lower()
RECURSIVE AlnumLower(_)
AlnumLower(label) ==
    IF label = <<>> THEN <<>>
    ELSE IF IsAlnumWord(Head(label))
         THEN <<LowerWord(Head(label))>> \o AlnumLower(Tail(label))
         ELSE AlnumLower(Tail(label))

normalize_ruleset_label_from_href(href) == AlnumLower(href)

normalize_ruleset_label_from_text(text) == AlnumLower(text)

\* "additional" in (href + text).lower()
IsAdditional(a) ==
    \E i \in 1..Len(a.href \o a.text) :
        LowerWord((a.href \o a.text)[i]) = "additional"

\* parse_index_for_rulesets: the loop over toc.select("a")
RECURSIVE FoundInToc(_)
FoundInToc(toc) ==
    IF toc = <<>> THEN <<>>
    ELSE LET a == Head(toc)
             byHref == normalize_ruleset_label_from_href(a.href)
             norm == IF byHref # <<>> THEN byHref
                     ELSE normalize_ruleset_label_from_text(a.text)
         IN IF IsAdditional(a) \/ norm = <<>>
            THEN FoundInToc(Tail(toc))
            ELSE <<norm>> \o FoundInToc(Tail(toc))

\* parse_index_for_rulesets: dedupe but preserve order
RECURSIVE Dedupe(_, _)
Dedupe(found, seen) ==
    IF found = <<>> THEN <<>>
    ELSE IF Head(found) \in seen
         THEN Dedupe(Tail(found), seen)
         ELSE <<Head(found)>> \o Dedupe(Tail(found), seen \cup {Head(found)})

parse_index_for_rulesets(toc) == Dedupe(FoundInToc(toc), {})

Anchor(href, text) == [href |-> href, text |-> text]

\* the index pages a language can have: no table of contents, one that names
\* a ruleset twice, a ruleset of its own and the additional rulesets, and one
\* that names no ruleset
IndexPages ==
    { <<>>,
      << Anchor(<<"#", "best", "-", "practices">>, <<"Best", " ", "Practices">>),
         Anchor(<<"#", "design">>, <<"Design">>),
         Anchor(<<"#", "best", "-", "practices">>, <<"Best", " ", "Practices">>),
         Anchor(<<"#", "additional", "-", "rulesets">>, <<"Additional", " ", "rulesets">>),
         Anchor(<<>>, <<"Custom", " ", "Rules">>) >>,
      << Anchor(<<"#", "additional", "-", "rulesets">>, <<"Additional", " ", "rulesets">>),
         Anchor(<<"#">>, <<" ">>) >> }

\* fetch: what it hands to its caller for each end of the request
fetch(outcome) == IF outcome = "ok" THEN "html" ELSE "None"

\* index_html: None, or the page with its table of contents
IndexHtml(ret, toc) == [html |-> ret = "html", toc |-> IF ret = "html" THEN toc ELSE <<>>]

\* a scrape_language that keeps an empty discovery
Detected_NoFallback(html) ==
    IF html.html THEN parse_index_for_rulesets(html.toc) ELSE FALLBACK_RULESETS

\* scrape_language: detected, from index_html
Detected(html) ==
    IF html.html /\ parse_index_for_rulesets(html.toc) # <<>>
    THEN parse_index_for_rulesets(html.toc)
    ELSE FALLBACK_RULESETS

\* out["rulesets"][rs_name] = value
SetKey(map, key, value) ==
    [k \in DOMAIN map \cup {key} |-> IF k = key THEN value ELSE map[k]]

\* for rs in FALLBACK_RULESETS: out["rulesets"].setdefault(rs, [])
RECURSIVE SetDefaults(_, _)
SetDefaults(map, keys) ==
    IF keys = <<>> THEN map
    ELSE SetDefaults(IF Head(keys) \in DOMAIN map THEN map
                     ELSE SetKey(map, Head(keys), <<>>),
                     Tail(keys))

EmptyMap == [k \in {} |-> <<>>]

PmdInit ==
    /\ ppc = "start"
    /\ indexFetch = FALSE
    /\ index_html = IndexHtml("None", <<>>)
    /\ detected = <<>>
    /\ rulesets = EmptyMap
    /\ sem = CONCURRENCY
    /\ sem_waiters = <<>>
    /\ rs_state = <<>>
    /\ err = "none"
    /\ pmd_log = {}

\* scrape_language: fetch(session, index_url) sends the request
ScrapeLanguage_FetchIndex ==
    /\ prog = "pmd" /\ ppc = "start"
    /\ indexFetch' = TRUE
    /\ ppc' = "index_wait"
    /\ UNCHANGED <<prog, site, sonarVars, checkVars, pmd_log, index_html, detected, rulesets,
                   sem, sem_waiters, rs_state, err>>

\* scrape_language: the index request ends; detected, sem and the tasks
ScrapeLanguage_Detect ==
    /\ prog = "pmd" /\ ppc = "index_wait"
    /\ \E outcome \in FetchOutcomes, toc \in IndexPages :
         LET ret == fetch(outcome)
         IN IF ret = "raises"
            THEN /\ ppc' = "crashed"
                 /\ err' = "fetch"
                 /\ UNCHANGED <<index_html, detected, rs_state>>
            ELSE /\ index_html' = IndexHtml(ret, toc)
                 /\ detected' = Detected(index_html')
                 /\ rs_state' = [i \in 1..Len(detected') |-> "created"]
                 /\ ppc' = "tasks"
                 /\ UNCHANGED err
    /\ indexFetch' = FALSE
    /\ UNCHANGED <<prog, site, sonarVars, checkVars, pmd_log, rulesets, sem, sem_waiters>>

\* asyncio.gather(*tasks): every task runs up to "async with sem"; those that
\* pass send their request
ScrapeLanguage_Gather ==
    /\ prog = "pmd" /\ ppc = "tasks"
    /\ LET n == Len(detected)
           k == Admitted(sem, n)
       IN /\ rs_state' = [i \in 1..n |-> IF i <= k THEN "inflight" ELSE "waiting"]
          /\ sem_waiters' = [j \in 1..(n - k) |-> k + j]
          /\ sem' = sem - k
    /\ ppc' = "gather"
    /\ UNCHANGED <<prog, site, sonarVars, checkVars, pmd_log, indexFetch, index_html, detected,
                   rulesets, err>>

\* parse_ruleset_page: the rules of a ruleset page (one rule per page here)
parse_ruleset_page(rs_name) == <<[title |-> rs_name]>>

\* fetch_and_parse after its request ended: the task's state
RulesetState(outcome) == ItemStateOf(fetch(RequestOf(outcome)), outcome)

\* fetch_and_parse: what out["rulesets"] is after the task of rs_name
RulesetsAfter(map, outcome, rs_name) ==
    IF RulesetState(outcome) = "completed"
    THEN SetKey(map, rs_name, parse_ruleset_page(rs_name))
    ELSE IF RulesetState(outcome) = "failed" THEN SetKey(map, rs_name, <<>>)
    ELSE map

\* fetch: the ends of a request it writes a warning or error for
fetch_logs(outcome) == outcome \in {"status", "timeout", "exception"}

\* fetch_and_parse: the task has an entry of fetch or its own warning
FetchAndParse_logs(outcome) ==
    fetch_logs(RequestOf(outcome)) \/ RulesetState(outcome) = "failed"

\* fetch_and_parse: the request of task i ends, the page is parsed and stored,
\* sem is left; an exception of the parse leaves the task and gather
\* re-raises it in scrape_language
FetchAndParse_Done(i) ==
    /\ prog = "pmd" /\ ppc = "gather"
    /\ rs_state[i] = "inflight"
    /\ \E outcome \in ItemOutcomes :
         /\ rs_state' = [rs_state EXCEPT ![i] = RulesetState(outcome)]
         /\ rulesets' = RulesetsAfter(rulesets, outcome, detected[i])
         /\ pmd_log' = IF FetchAndParse_logs(outcome) THEN pmd_log \cup {i}
                       ELSE pmd_log
         /\ sem' = Release(sem, outcome)
         /\ ppc' = IF RulesetState(outcome) = "raised" THEN "crashed" ELSE ppc
         /\ err' = IF RulesetState(outcome) = "raised"
                   THEN FaultOf(fetch(RequestOf(outcome)), outcome) ELSE err
    /\ UNCHANGED <<prog, site, sonarVars, checkVars, indexFetch, index_html, detected,
                   sem_waiters>>

\* asyncio.Semaphore: the longest-waiting task passes "async with sem"
Sem_Wake ==
    /\ prog = "pmd" /\ ppc = "gather"
    /\ sem_waiters # <<>>
    /\ CanAcquire(sem)
    /\ sem' = sem - 1
    /\ rs_state' = [rs_state EXCEPT ![Head(sem_waiters)] = "inflight"]
    /\ sem_waiters' = Tail(sem_waiters)
    /\ UNCHANGED <<prog, site, sonarVars, checkVars, pmd_log, ppc, indexFetch, index_html,
                   detected, rulesets, err>>

\* scrape_language: gather returns, the fallback keys are ensured, return out
ScrapeLanguage_Return ==
    /\ prog = "pmd" /\ ppc = "gather"
    /\ \A i \in 1..Len(detected) : rs_state[i] \in {"completed", "failed"}
    /\ rulesets' = SetDefaults(rulesets, FALLBACK_RULESETS)
    /\ ppc' = "returned"
    /\ UNCHANGED <<prog, site, sonarVars, checkVars, pmd_log, indexFetch, index_html, detected,
                   sem, sem_waiters, rs_state, err>>

PmdNext ==
    \/ ScrapeLanguage_FetchIndex
    \/ ScrapeLanguage_Detect
    \/ ScrapeLanguage_Gather
    \/ \E i \in 1..Len(detected) : FetchAndParse_Done(i)
    \/ Sem_Wake
    \/ ScrapeLanguage_Return

\* --------------------------------------------------------------- check.py
\* A category name is the sequence of its character codes: annotation,
\* blocks, design, javadoc, misc, naming, coding, imports, header, metrics,
\* modifier, regexp, sizes, whitespace.
CATEGORIES ==
    <<
       <<97, 110, 110, 111, 116, 97, 116, 105, 111, 110>>,
       <<98, 108, 111, 99, 107, 115>>,
       <<100, 101, 115, 105, 103, 110>>,
       <<106, 97, 118, 97, 100, 111, 99>>,
       <<109, 105, 115, 99>>,
       <<110, 97, 109, 105, 110, 103>>,
       <<99, 111, 100, 105, 110, 103>>,
       <<105, 109, 112, 111, 114, 116, 115>>,
       <<104, 101, 97, 100, 101, 114>>,
       <<109, 101, 116, 114, 105, 99, 115>>,
       <<109, 111, 100, 105, 102, 105, 101, 114>>,
       <<114, 101, 103, 101, 120, 112>>,
       <<115, 105, 122, 101, 115>>,
       <<119, 104, 105, 116, 101, 115, 112, 97, 99, 101>>
    >>

\* the categories of one go: the last NumCats of the first seven
Cats == (8 - NumCats)..7

\* str.capitalize(), str.lower() and the order of str
UpperChar(c) == IF c \in 97..122 THEN c - 32 ELSE c

LowerChar(c) == IF c \in 65..90 THEN c + 32 ELSE c

LowerStr(str) == [i \in 1..Len(str) |-> LowerChar(str[i])]

Capitalize(str) ==
    [i \in 1..Len(str) |-> IF i = 1 THEN UpperChar(str[i]) ELSE LowerChar(str[i])]

RECURSIVE StrLess(_, _)
StrLess(a, b) ==
    IF b = <<>> THEN FALSE
    ELSE IF a = <<>> THEN TRUE
    ELSE IF Head(a) # Head(b) THEN Head(a) < Head(b)
    ELSE StrLess(Tail(a), Tail(b))

\* x.get("category", "")
CategoryKey(x) == IF "category" \in DOMAIN x THEN x.category ELSE <<>>

\* list.sort(key=...): a stable sort
RECURSIVE InsertByKey(_, _)
InsertByKey(sorted, x) ==
    IF sorted = <<>> THEN <<x>>
    ELSE IF StrLess(CategoryKey(x), CategoryKey(Head(sorted)))
         THEN <<x>> \o sorted
         ELSE <<Head(sorted)>> \o InsertByKey(Tail(sorted), x)

\* an entry point that writes the categories in the order of completion
SortByCategory_None(data) == data

RECURSIVE SortByCategory(_)
SortByCategory(data) ==
    IF data = <<>> THEN <<>>
    ELSE InsertByKey(SortByCategory(SubSeq(data, 1, Len(data) - 1)),
                     data[Len(data)])

\* the td cells of a category's index page: an anchor (page, fragment, text)
\* or no anchor.  The first category of the go lists two rules and the first
\* of them a second time; the others list one rule.
Cell(p, fragment, text) == [anchor |-> TRUE, page |-> p, fragment |-> fragment, text |-> text]
NoAnchor == [anchor |-> FALSE, page |-> "", fragment |-> "", text |-> ""]

IndexCells(c) ==
    IF c = 8 - NumCats
    THEN << Cell("rule1.html", "Rule1", "Rule1"), NoAnchor,
            Cell("rule2.html", "", "Rule2"),
            Cell("rule1.html", "Example", "Rule1") >>
    ELSE << Cell("rule1.html", "Rule1", "Rule1"), NoAnchor >>

\* urljoin(self.base_url, a_tag["href"].split("#")[0])
RuleUrl(c, cell) == [category |-> CATEGORIES[c], page |-> cell.page]

\* scrape: the loop over soup.find_all("td")
RECURSIVE RuleLinks(_, _)
RuleLinks(c, cells) ==
    IF cells = <<>> THEN <<>>
    ELSE IF ~Head(cells).anchor THEN RuleLinks(c, Tail(cells))
    ELSE <<[url |-> RuleUrl(c, Head(cells)), name |-> Head(cells).text]>>
         \o RuleLinks(c, Tail(cells))

\* extract_rule_details: the record of a rule page
extract_rule_details(link) == [title |-> link.name]

\* scrape: final_json
FinalJson(c, rs) ==
    [category |-> Capitalize(LowerStr(CATEGORIES[c])),
     total_rules |-> Len(rs), rules |-> rs]

\* a pool that starts a thread for every submitted task
Started_All(cap, n) == n

\* ThreadPoolExecutor: of n submitted tasks, those a pool of cap workers runs
\* at once
Started(cap, n) == Min(cap, n)

\* ThreadPoolExecutor: the state of the tasks when a worker that ended a task
\* takes the next one off the queue
TakeNext(states) ==
    IF \E i \in DOMAIN states : states[i] = "queued"
    THEN LET n == CHOOSE i \in DOMAIN states :
                    /\ states[i] = "queued"
                    /\ \A j \in DOMAIN states : states[j] = "queued" => i <= j
         IN [states EXCEPT ![n] = "running"]
    ELSE states

CheckInit ==
    /\ mpc = "start"
    /\ cat_state = [c \in Cats |-> "queued"]
    /\ rule_links = [c \in Cats |-> <<>>]
    /\ rule_state = [c \in Cats |-> <<>>]
    /\ rules = [c \in Cats |-> <<>>]
    /\ combined_data = <<>>
    /\ check_log = [c \in Cats |-> {}]
    /\ combined_file = [written |-> FALSE, checkstyle_categories |-> <<>>]

\* entry point: executor.submit(run_scraper_for_category, cat) for every
\* category; the workers start on the first ones and request their index page
Main_Submit ==
    /\ prog = "checkstyle" /\ mpc = "start"
    /\ cat_state' = [c \in Cats |->
                       IF c - (8 - NumCats) < Started(MAX_GLOBAL_WORKERS, NumCats)
                       THEN "running" ELSE "queued"]
    /\ mpc' = "pool"
    /\ UNCHANGED <<prog, site, sonarVars, pmdVars, poolVars, check_log, rule_links, rule_state, rules,
                   combined_data, combined_file>>

\* fetch_soup: what it hands to its caller for each end of the request
fetch_soup(outcome) == IF outcome = "ok" THEN "soup" ELSE "None"

\* what scrape can end with before its pool: an end of the index request, or
\* an exception of its own that leaves scrape
IndexOutcomes == FetchOutcomes \cup {"scraper_raises"}

\* run_scraper_for_category: what the task of a category hands to the entry
\* point when scrape ends before its pool: "scrape" (scrape goes on), {}
\* (no index page) or None (the exception caught)
EarlyResult(outcome) ==
    IF outcome = "scraper_raises" THEN "None"
    ELSE IF fetch_soup(outcome) = "soup" THEN "scrape"
    ELSE IF fetch_soup(outcome) = "raises" THEN "None"
    ELSE "{}"

\* the value of a category's future: final_json when scrape ran to its end,
\* {} when it had no index page, None when run_scraper_for_category caught
\* an exception
Result(early, final_json) ==
    [none |-> early = "None",
     dict |-> IF early = "scrape" THEN final_json ELSE <<>>]

\* the test of "if result := future.result()" read as "is not None"
Truthy_NotNone(result) == ~result.none

\* entry point: the test of "if result := future.result()": None and the
\* empty dict are false
Truthy(result) == ~result.none /\ DOMAIN result.dict # {}

\* entry point: if result := future.result(): combined_data.append(result)
Collect(data, result) ==
    IF Truthy(result) THEN Append(data, result.dict) ELSE data

\* scrape: the index request of category c ends; rule_links and the submits
Scrape_Index(c) ==
    /\ prog = "checkstyle" /\ mpc = "pool"
    /\ cat_state[c] = "running"
    /\ \E outcome \in IndexOutcomes :
         IF EarlyResult(outcome) = "scrape"
         THEN LET ls == RuleLinks(c, IndexCells(c))
                  k == Started(max_workers, Len(ls))
              IN /\ rule_links' = [rule_links EXCEPT ![c] = ls]
                 /\ rule_state' = [rule_state EXCEPT ![c] =
                        [i \in 1..Len(ls) |-> IF i <= k THEN "running" ELSE "queued"]]
                 /\ cat_state' = [cat_state EXCEPT ![c] = "scraping"]
                 /\ UNCHANGED combined_data
         ELSE /\ cat_state' = TakeNext([cat_state EXCEPT ![c] = "returned"])
              /\ combined_data' =
                     Collect(combined_data, Result(EarlyResult(outcome), <<>>))
              /\ UNCHANGED <<rule_links, rule_state>>
    /\ UNCHANGED <<prog, site, sonarVars, pmdVars, poolVars, check_log, mpc, rules,
                   combined_file>>

\* the task of a rule after its request ended: extract_rule_details
\* returned a record (completed), or None or raised into the try of scrape
\* (failed)
RuleState(outcome) ==
    IF ItemStateOf(fetch_soup(RequestOf(outcome)), outcome) = "completed"
    THEN "completed" ELSE "failed"

\* scrape: if result := future.result(): rules.append(result)
RulesAfter(rs, outcome, link) ==
    IF RuleState(outcome) = "completed"
    THEN Append(rs, extract_rule_details(link)) ELSE rs

\* fetch_soup: the ends of a request it writes an error for (a status other
\* than 200 falls through to "return None")
fetch_soup_logs(outcome) == outcome \in {"timeout", "exception"}

\* scrape: the except clause around future.result() writes an error naming
\* the rule when extract_rule_details raised
Scrape_logs(outcome) ==
    fetch_soup_logs(RequestOf(outcome))
      \/ ItemStateOf(fetch_soup(RequestOf(outcome)), outcome) = "raised"

\* extract_rule_details of entry i of category c ends and the as_completed
\* loop of scrape takes its future; the worker takes the next task
Rule_Done(c, i) ==
    /\ prog = "checkstyle" /\ mpc = "pool"
    /\ cat_state[c] = "scraping"
    /\ rule_state[c][i] = "running"
    /\ \E outcome \in ItemOutcomes :
         /\ rules' = [rules EXCEPT ![c] = RulesAfter(rules[c], outcome, rule_links[c][i])]
         /\ rule_state' = [rule_state EXCEPT ![c] =
                TakeNext([rule_state[c] EXCEPT ![i] = RuleState(outcome)])]
         /\ check_log' = IF Scrape_logs(outcome)
                         THEN [check_log EXCEPT ![c] = @ \cup {i}]
                         ELSE check_log
    /\ UNCHANGED <<prog, site, sonarVars, pmdVars, poolVars, mpc, cat_state, rule_links,
                   combined_data, combined_file>>

\* scrape returns final_json and the as_completed loop of the entry point
\* takes the category's future
Scrape_Return(c) ==
    /\ prog = "checkstyle" /\ mpc = "pool"
    /\ cat_state[c] = "scraping"
    /\ \A i \in 1..Len(rule_links[c]) : rule_state[c][i] \in {"completed", "failed"}
    /\ combined_data' = Collect(combined_data, Result("scrape", FinalJson(c, rules[c])))
    /\ cat_state' = TakeNext([cat_state EXCEPT ![c] = "returned"])
    /\ UNCHANGED <<prog, site, sonarVars, pmdVars, poolVars, check_log, mpc, rule_links, rule_state, rules,
                   combined_file>>

\* entry point: the sort of the categories and the dump of the combined file
Main_Write ==
    /\ prog = "checkstyle" /\ mpc = "pool"
    /\ \A c \in Cats : cat_state[c] = "returned"
    /\ combined_file' = [written |-> TRUE,
                         checkstyle_categories |-> SortByCategory(combined_data)]
    /\ mpc' = "written"
    /\ UNCHANGED <<prog, site, sonarVars, pmdVars, poolVars, check_log, cat_state, rule_links, rule_state,
                   rules, combined_data>>

CheckNext ==
    \/ Main_Submit
    \/ \E c \in Cats : Scrape_Index(c)
    \/ \E c \in Cats : \E i \in 1..Len(rule_links[c]) : Rule_Done(c, i)
    \/ \E c \in Cats : Scrape_Return(c)
    \/ Main_Write

\* ------------------------------------------- check.py: the two pools
\* The entry point and scrape by numbers of tasks: which category or rule a
\* task belongs to is left out, how many tasks are queued and running is kept.
Worker(phase, queued, running) == [phase |-> phase, queued |-> queued, running |-> running]

\* a worker of the outer pool that has started run_scraper_for_category and
\* requests the index page
AtIndex == Worker("index", 0, 0)

\* n copies of e
Copies(e, n) == IF n = 0 THEN EmptyBag ELSE [x \in {e} |-> n]

\* ThreadPoolExecutor: a worker that ended a task takes the next one off the
\* queue, if there is one
TakeNextOf(queue) == IF queue > 0 THEN 1 ELSE 0

\* the numbers of rule links an index page can show
PoolLinkCounts == {0, NumPoolLinks}

PoolInit ==
    /\ pool_pc = "start"
    /\ cat_queue = 0
    /\ workers = EmptyBag

\* entry point: executor.submit(run_scraper_for_category, cat) for every
\* category
Pool_Submit ==
    /\ pool_pc = "start"
    /\ workers' = Copies(AtIndex, Started(MAX_GLOBAL_WORKERS, NumPoolCats))
    /\ cat_queue' = NumPoolCats - Started(MAX_GLOBAL_WORKERS, NumPoolCats)
    /\ pool_pc' = "pool"
    /\ UNCHANGED <<prog, site, sonarVars, pmdVars, mpc, cat_state, rule_links,
                   rule_state, rules, combined_data, check_log, combined_file>>

\* run_scraper_for_category returns and its worker takes the next category
WorkerReturns(w) ==
    /\ workers' = (workers (-) Copies(w, 1)) (+) Copies(AtIndex, TakeNextOf(cat_queue))
    /\ cat_queue' = cat_queue - TakeNextOf(cat_queue)

\* scrape: the index request of a category ends; rule_links and the submits
\* to the pool of the scrape, or the return without an index page
Pool_Index ==
    /\ pool_pc = "pool"
    /\ BagIn(AtIndex, workers)
    /\ \E outcome \in IndexOutcomes, n \in PoolLinkCounts :
         IF EarlyResult(outcome) = "scrape"
         THEN /\ workers' = (workers (-) Copies(AtIndex, 1))
                              (+) Copies(Worker("pool", n - Started(max_workers, n),
                                                Started(max_workers, n)), 1)
              /\ UNCHANGED cat_queue
         ELSE WorkerReturns(AtIndex)
    /\ UNCHANGED <<prog, site, sonarVars, pmdVars, mpc, cat_state, rule_links,
                   rule_state, rules, combined_data, check_log, combined_file,
                   pool_pc>>

\* extract_rule_details of one rule ends; its worker takes the next rule
Pool_RuleDone ==
    /\ pool_pc = "pool"
    /\ \E w \in BagToSet(workers) :
         /\ w.phase = "pool" /\ w.running > 0
         /\ workers' = (workers (-) Copies(w, 1))
                         (+) Copies(Worker("pool", w.queued - TakeNextOf(w.queued),
                                           w.running - 1 + TakeNextOf(w.queued)), 1)
    /\ UNCHANGED <<prog, site, sonarVars, pmdVars, mpc, cat_state, rule_links,
                   rule_state, rules, combined_data, check_log, combined_file,
                   pool_pc, cat_queue>>

\* scrape returns final_json when every task of its pool has ended
Pool_Return ==
    /\ pool_pc = "pool"
    /\ \E w \in BagToSet(workers) :
         /\ w.phase = "pool" /\ w.running = 0 /\ w.queued = 0
         /\ WorkerReturns(w)
    /\ UNCHANGED <<prog, site, sonarVars, pmdVars, mpc, cat_state, rule_links,
                   rule_state, rules, combined_data, check_log, combined_file,
                   pool_pc>>

\* entry point: every category has returned; the combined file is written
Pool_Write ==
    /\ pool_pc = "pool"
    /\ workers = EmptyBag /\ cat_queue = 0
    /\ pool_pc' = "written"
    /\ UNCHANGED <<prog, site, sonarVars, pmdVars, mpc, cat_state, rule_links,
                   rule_state, rules, combined_data, check_log, combined_file,
                   cat_queue, workers>>

PoolNext ==
    \/ Pool_Submit
    \/ Pool_Index
    \/ Pool_RuleDone
    \/ Pool_Return
    \/ Pool_Write

Init ==
    /\ prog \in {"sonar", "pmd", "checkstyle"}
    /\ site = "one_short"
    /\ SonarInit
    /\ PmdInit
    /\ CheckInit
    /\ PoolInit

Next == SonarNext \/ PmdNext \/ CheckNext

Spec == Init /\ [][Next]_vars

\* get_rule_links alone (run up to the return of get_rule_links), over every
\* layout of the listing pages
DiscoveryInit ==
    /\ prog = "sonar"
    /\ site \in Sites
    /\ SonarInit
    /\ PmdInit
    /\ CheckInit
    /\ PoolInit

DiscoveryNext == Run_Resume \/ GetRuleLinks_Fetch \/ GetRuleLinks_Page

DiscoverySpec == DiscoveryInit /\ [][DiscoveryNext]_vars

\* one invocation of SonarRuleScraper.run that is not interrupted.  The event
\* loop runs every coroutine that can go on, and every request returns (the
\* session's timeout), so no step that stays possible is put off forever.
RunInit ==
    /\ prog = "sonar"
    /\ site = "one_short"
    /\ SonarInit
    /\ PmdInit
    /\ CheckInit
    /\ PoolInit

RunNext ==
    \/ Run_Resume
    \/ GetRuleLinks_Fetch
    \/ GetRuleLinks_Page
    \/ Run_Pending
    \/ Run_Chunk
    \/ \E i \in 1..Len(pending) : ProcessOne_Done(i)
    \/ Semaphore_Wake
    \/ Run_Gathered
    \/ Save_Open
    \/ Save_Dump
    \/ Save_Replace

RunFairness ==
    /\ WF_vars(Run_Resume)
    /\ WF_vars(GetRuleLinks_Fetch)
    /\ WF_vars(GetRuleLinks_Page)
    /\ WF_vars(Run_Pending)
    /\ WF_vars(Run_Chunk)
    /\ WF_vars(\E i \in 1..Len(pending) : ProcessOne_Done(i))
    /\ WF_vars(Semaphore_Wake)
    /\ WF_vars(Run_Gathered)
    /\ WF_vars(Save_Open)
    /\ WF_vars(Save_Dump)
    /\ WF_vars(Save_Replace)

RunSpec == RunInit /\ [][RunNext]_vars /\ RunFairness

\* check.py alone, its two pools by numbers of tasks
PoolSpecInit == prog = "checkstyle" /\ site = "one_short" /\ SonarInit /\ PmdInit /\ CheckInit /\ PoolInit

PoolSpec == PoolSpecInit /\ [][PoolNext]_vars

\* -------------------------------------------------------------- properties
Count(states, what) == Cardinality({i \in DOMAIN states : states[i] = what})

\* the requests in flight: the listing or index request and those of the tasks
SonarInFlight == (IF listFetch THEN 1 ELSE 0) + Count(st, "inflight")

PmdInFlight == (IF indexFetch THEN 1 ELSE 0) + Count(rs_state, "inflight")

\* C1: in SonarRuleScraper.run the requests in flight never exceed
\* self.concurrency, and in scrape_language the requests of the ruleset tasks
\* in flight never exceed CONCURRENCY, whatever the number of work items.
C1_BoundedConcurrency ==
    /\ prog = "sonar" => SonarInFlight <= concurrency
    /\ prog = "pmd" => PmdInFlight <= CONCURRENCY

\* the cap is reached while further tasks wait for the semaphore
C1_Witness ==
    \/ /\ prog = "sonar" /\ SonarInFlight = concurrency /\ waiters # <<>>
       /\ Len(pending) > concurrency
    \/ /\ prog = "pmd" /\ PmdInFlight = CONCURRENCY /\ sem_waiters # <<>>

\* the tasks of a sequence of task states that have ended
AllEnded(states) == \A i \in DOMAIN states : states[i] \in {"completed", "failed"}

\* C2: a request that fails (timeout, network error, status other than 200)
\* never raises out of the fetch function; the other work items of the run are
\* still fetched, those whose own fetch and parse succeed are in the results,
\* and the run reaches its final save (Sonar) or hands its records to the
\* combined output (Checkstyle).
C2_FetchFailureIsolated ==
    /\ prog = "sonar" =>
         /\ fault # "fetch"
         /\ pc = "done" =>
              /\ AllEnded(st)
              /\ \A i \in 1..Len(pending) :
                   st[i] = "completed" =>
                     ParseRuleHtml(pending[i]) \in SeqToSet(results.recs)
              /\ files[OutFile] = results
    /\ prog = "checkstyle" =>
         \A c \in Cats :
           (cat_state[c] = "returned" /\ rule_links[c] # <<>>) =>
              /\ AllEnded(rule_state[c])
              /\ \A i \in 1..Len(rule_links[c]) :
                   rule_state[c][i] = "completed" =>
                     extract_rule_details(rule_links[c][i]) \in SeqToSet(rules[c])
              /\ \E k \in 1..Len(combined_data) :
                   combined_data[k] = FinalJson(c, rules[c])

\* a finished Sonar run in which one request failed and another item was
\* fetched, parsed and saved
C2_Witness ==
    /\ prog = "sonar" /\ pc = "done"
    /\ \E i, j \in 1..Len(pending) : st[i] = "failed" /\ st[j] = "completed"
    /\ files[OutFile] = results

\* C3: an exception of the parse of one item's page is caught at the item and
\* never leaves the harvesting loop (the gather of run, the gather of
\* scrape_language).
C3_ParseFailureIsolated ==
    /\ prog = "sonar" => fault # "parse"
    /\ prog = "pmd" => err # "parse"

\* C4: whatever the instant at which the process is interrupted, the output
\* file holds its previous content or the complete dump of the result list:
\* every step leaves the output file as it was or puts the whole list of
\* self.results there, and only _save's os.replace changes it.
C4_AtomicSave ==
    [][ \/ files'[OutFile] = files[OutFile]
        \/ /\ pc = "save_replace"
           /\ files'[OutFile] = ListOf(results.recs)
           /\ files[TmpPath(OutFile)] = ListOf(results.recs) ]_vars

\* the process was interrupted during the write of the temporary file of a
\* save, after an earlier save of the same run had put a list into the output
\* file
C4_Witness ==
    /\ prog = "sonar" /\ pc = "killed"
    /\ files[TmpPath(OutFile)].kind = "partial"
    /\ files[OutFile].kind = "list" /\ files[OutFile].recs # <<>>

IsPrefix(a, b) == Len(a) <= Len(b) /\ SubSeq(b, 1, Len(a)) = a

\* run has built its tasks
TasksBuilt ==
    \/ pc \in {"chunk", "gather", "save_open", "save_write", "save_replace", "done"}
    \/ pc = "crashed" /\ fault = "parse"

\* the discovered rule URLs, and those of them that have a loaded record
Discovered == SeqToSet(Normalized(links))

Loaded == {u \in Discovered : \E k \in 1..Len(existing) : existing[k].url = BaseJoin(u)}

\* C5: a resumed run builds a task for exactly the discovered URLs without a
\* loaded record (n - k of them), never for a URL with a loaded record, and
\* the loaded records are the unchanged head of self.results and of every
\* content the run puts into the output file.
C5_ResumeSkipsCompleted ==
    prog = "sonar" =>
      /\ TasksBuilt =>
           /\ SeqToSet(pending) = Discovered \ Loaded
           /\ Len(pending) = Cardinality(Discovered) - Cardinality(Loaded)
      /\ \A i \in 1..Len(pending), k \in 1..Len(existing) :
           existing[k].url # BaseJoin(pending[i])
      /\ results.kind = "list" => IsPrefix(existing, results.recs)
      /\ files[OutFile].kind = "list" => IsPrefix(existing, files[OutFile].recs)

\* a resumed run that loaded k records, 0 < k < n, fetched the other n - k
\* URLs, got a record for one of them and made its final save
C5_Witness ==
    /\ prog = "sonar" /\ run = 2 /\ pc = "done"
    /\ Len(existing) >= 1 /\ Len(pending) >= 1
    /\ Len(existing) + Len(pending) = Cardinality(Discovered)
    /\ \E i \in 1..Len(pending) : st[i] = "completed"
    /\ Len(files[OutFile].recs) > Len(existing)

\* the second of two runs that both reached their final save
SecondRunDone == prog = "sonar" /\ run >= 2 /\ prevExit = "done" /\ pc = "done"

\* the URLs of the items the current run fetched and parsed
CompletedNow == {BaseJoin(pending[i]) : i \in {j \in 1..Len(pending) : st[j] = "completed"}}

\* C6 as stated: after the second run the set of records, and so the sorted
\* final JSON, is that of the first run.
C6_SecondRunChangesNothing ==
    SecondRunDone => SeqToSet(files[OutFile].recs) = SeqToSet(existing)

\* C6, amended: the second run removes and changes no record of the first
\* run's output; it adds one record for each URL without a record whose fetch
\* and parse succeed this time, and nothing else; if none succeeds, the final
\* file is the first run's.
C6_SecondRunOnlyAdds ==
    SecondRunDone =>
      LET out == files[OutFile].recs
          added == SubSeq(out, Len(existing) + 1, Len(out))
      IN /\ files[OutFile].kind = "list"
         /\ IsPrefix(existing, out)
         /\ DoneUrls(added) = CompletedNow
         /\ Len(added) = Cardinality(CompletedNow)
         /\ DoneUrls(added) \cap DoneUrls(existing) = {}
         /\ CompletedNow = {} => files[OutFile] = ListOf(existing)

\* a second run that found the first run's records, fetched the URLs that had
\* failed, failed on them again and saved the same list
C6_Witness ==
    /\ SecondRunDone
    /\ existing # <<>> /\ pending # <<>>
    /\ CompletedNow = {}
    /\ files[OutFile] = ListOf(existing)

\* the tasks of the current Sonar run whose URL has a record in self.results
WithRecord == {i \in 1..Len(pending) : BaseJoin(pending[i]) \in DoneUrls(results.recs)}

\* how many entries of a sequence satisfy title = t, name = t
TitleCount(rs, t) == Cardinality({k \in 1..Len(rs) : rs[k].title = t})

NameCount(c, t) ==
    Cardinality({i \in 1..Len(rule_links[c]) :
                   rule_links[c][i].name = t /\ rule_state[c][i] = "completed"})

NamesOf(data) == [k \in 1..Len(data) |-> LowerStr(data[k].category)]

Ascending(names) ==
    \A j, k \in 1..Len(names) : j < k => StrLess(names[j], names[k])

\* C8: whatever the order in which the category tasks completed, the written
\* combined file lists the categories that returned data in ascending order
\* of their names, and lists exactly those.
C8_CategoriesSorted ==
    (prog = "checkstyle" /\ combined_file.written) =>
       /\ Ascending(NamesOf(combined_file.checkstyle_categories))
       /\ SeqToSet(combined_file.checkstyle_categories) = SeqToSet(combined_data)
       /\ Len(combined_file.checkstyle_categories) = Len(combined_data)

\* every category returned data, in an order of completion that is not the
\* ascending one, and the file is written
C8_Witness ==
    /\ prog = "checkstyle" /\ combined_file.written
    /\ Len(combined_data) = NumCats
    /\ ~Ascending(NamesOf(combined_data))

\* the place of a ruleset name in detected, 0 when it is not there
PlaceOf(name) ==
    IF \E i \in 1..Len(detected) : detected[i] = name
    THEN CHOOSE i \in 1..Len(detected) : detected[i] = name
    ELSE 0

\* C9: in scrape_language, when the index page could not be fetched or its
\* discovery gave no ruleset, the tasks are exactly those of FALLBACK_RULESETS;
\* and when scrape_language returns, every name of FALLBACK_RULESETS is a key
\* of out["rulesets"], with the empty list when the name was not among the
\* tasks or its page could not be fetched.
C9_FallbackCorrect ==
    prog = "pmd" =>
      /\ (ppc \in {"tasks", "gather", "returned"}
            /\ (~index_html.html \/ parse_index_for_rulesets(index_html.toc) = <<>>)) =>
           /\ detected = FALLBACK_RULESETS
           /\ DOMAIN rs_state = 1..Len(FALLBACK_RULESETS)
      /\ ppc = "returned" =>
           \A k \in 1..Len(FALLBACK_RULESETS) :
             LET name == FALLBACK_RULESETS[k]
             IN /\ name \in DOMAIN rulesets
                /\ PlaceOf(name) = 0 => rulesets[name] = <<>>
                /\ (PlaceOf(name) # 0 /\ rs_state[PlaceOf(name)] = "failed")
                     => rulesets[name] = <<>>

\* scrape_language returned after the index page could not be fetched; one
\* fallback ruleset page failed and another gave its rules
C9_Witness ==
    /\ prog = "pmd" /\ ppc = "returned"
    /\ ~index_html.html
    /\ detected = FALLBACK_RULESETS
    /\ \E i, j \in 1..Len(detected) :
         /\ rs_state[i] = "failed" /\ rulesets[detected[i]] = <<>>
         /\ rs_state[j] = "completed" /\ rulesets[detected[j]] # <<>>

\* C10: whatever the output file holds when run(resume=True) starts (nothing,
\* text that is not JSON, JSON that is not a list of records), the run does
\* not fault because of it: it goes on to its tasks with every discovered
\* URL pending.
C10_LoadTolerant ==
    prog = "sonar" =>
      /\ fault # "resume"
      /\ (pc = "chunk" /\ files[OutFile].kind # "list") =>
           pending = Normalized(links)

\* C11: in SonarRuleScraper.run, while a fetch is still in flight and a
\* permit of the semaphore is free, no pending item is left un-dispatched
\* unless a task is waiting at the semaphore to take the permit: a completion
\* is followed by the dispatch of the next pending item, not by a wait for
\* the rest of a group.
C11_SlidingWindow ==
    (/\ prog = "sonar" /\ pc = "gather"
     /\ Count(st, "inflight") >= 1
     /\ semaphore > 0
     /\ Count(st, "created") >= 1)
      => waiters # <<>>

\* the URLs of the records the output file holds
OnDisk == IF files[OutFile].kind = "list" THEN DoneUrls(files[OutFile].recs) ELSE {}

\* the records of self.results the output file does not hold
Unsaved == Cardinality(DoneUrls(results.recs) \ OnDisk)

\* C12: at every instant of SonarRuleScraper.run, the records completed in
\* this run that the output file does not hold yet are at most save_every,
\* for every concurrency and save_every.
C12_CheckpointLossBound ==
    prog = "sonar" => Unsaved <= save_every

NoRepeat(items) ==
    \A i, j \in 1..Len(items) : i # j => items[i] # items[j]

\* the place where x is first seen in a sequence
FirstSeen(seenSeq, x) ==
    CHOOSE i \in 1..Len(seenSeq) :
        seenSeq[i] = x /\ \A j \in 1..(i - 1) : seenSeq[j] # x

InFirstSeenOrder(items, seenSeq) ==
    \A i, j \in 1..Len(items) :
        i < j => FirstSeen(seenSeq, items[i]) < FirstSeen(seenSeq, items[j])

\* C13: the work items of link discovery (what get_rule_links returns, the
\* rule_links of a Checkstyle category, what parse_index_for_rulesets
\* returns) hold each normalized URL or name once, in the order in which
\* the index pages showed them first.
C13_DiscoveryDeduped ==
    /\ (prog = "sonar" /\ pc = "links_done") =>
         /\ NoRepeat(Normalized(links))
         /\ InFirstSeenOrder(Normalized(links),
                             [k \in 1..Len(links) |-> StripHost(links[k])])
    /\ prog = "checkstyle" =>
         \A c \in Cats :
           NoRepeat([k \in 1..Len(rule_links[c]) |-> rule_links[c][k].url])
    /\ (prog = "pmd" /\ index_html.html) =>
         /\ NoRepeat(parse_index_for_rulesets(index_html.toc))
         /\ InFirstSeenOrder(parse_index_for_rulesets(index_html.toc),
                             FoundInToc(index_html.toc))

\* where the record of task i is in a sequence of Sonar records
PlaceOfRecord(recs, i) ==
    CHOOSE k \in 1..Len(recs) : recs[k].url = BaseJoin(pending[i])

\* the entries of rule_links[c] that are the first of their name
FirstOfName(c, i) ==
    \A h \in 1..(i - 1) : rule_links[c][h].name # rule_links[c][i].name

\* where the first record of a title is in the rules of a category
PlaceOfTitle(rs, t) ==
    CHOOSE k \in 1..Len(rs) : rs[k].title = t /\ \A h \in 1..(k - 1) : rs[h].title # t

\* C14: the order of the records in the written output does not depend on
\* the order in which the fetches completed: the Sonar output file lists the
\* records of this run in ascending order of their URLs (the order of
\* pending), and in the rules of a Checkstyle category the records of two
\* rules are in the order in which the index page names the rules.
C14_OrderIndependentOutput ==
    /\ (prog = "sonar" /\ pc = "done") =>
         \A i, j \in 1..Len(pending) :
           (i < j /\ st[i] = "completed" /\ st[j] = "completed") =>
              PlaceOfRecord(files[OutFile].recs, i)
                < PlaceOfRecord(files[OutFile].recs, j)
    /\ prog = "checkstyle" =>
         \A c \in Cats :
           (cat_state[c] = "returned" /\ rule_links[c] # <<>>) =>
              \A i, j \in 1..Len(rule_links[c]) :
                (/\ i < j /\ FirstOfName(c, i) /\ FirstOfName(c, j)
                 /\ rule_state[c][i] = "completed"
                 /\ rule_state[c][j] = "completed") =>
                   PlaceOfTitle(rules[c], rule_links[c][i].name)
                     < PlaceOfTitle(rules[c], rule_links[c][j].name)

\* C15: a periodic save of SonarRuleScraper.run that fails with an OSError
\* (the temporary file cannot be opened, written or renamed) does not end the
\* run: run does not raise because of it.
C15_BestEffortCheckpoint ==
    prog = "sonar" => ~(pc = "crashed" /\ fault = "storage" /\ saveRet = "ckpt")

\* C16: every work item that ended without a record has a failure entry in
\* the log naming it, whatever made it fail (status other than 200, timeout,
\* another exception), in each of the three scripts.
C16_NoSilentDrops ==
    /\ prog = "sonar" =>
         \A i \in 1..Len(st) : st[i] = "failed" => i \in sonar_log
    /\ prog = "pmd" =>
         \A i \in 1..Len(rs_state) : rs_state[i] = "failed" => i \in pmd_log
    /\ prog = "checkstyle" =>
         \A c \in Cats : \A i \in 1..Len(rule_state[c]) :
           rule_state[c][i] = "failed" => i \in check_log[c]

\* the requests in flight of a worker of the outer pool: its index request or
\* the rule requests of its scrape
FetchesOf(w) == IF w.phase = "index" THEN 1 ELSE w.running

RECURSIVE SumFetches(_)
SumFetches(ws) ==
    IF ws = {} THEN 0
    ELSE LET w == CHOOSE x \in ws : TRUE
         IN CopiesIn(w, workers) * FetchesOf(w) + SumFetches(ws \ {w})

\* C17: in the multi-category Checkstyle run at most MAX_GLOBAL_WORKERS
\* categories run their scraper at once, each of them has at most max_workers
\* rule requests in flight, and the requests in flight are never more than
\* MAX_GLOBAL_WORKERS * max_workers.
C17_NestedBoundedConcurrency ==
    /\ BagCardinality(workers) <= MAX_GLOBAL_WORKERS
    /\ \A w \in BagToSet(workers) : w.running <= max_workers
    /\ SumFetches(BagToSet(workers)) <= MAX_GLOBAL_WORKERS * max_workers

\* both caps are reached: MAX_GLOBAL_WORKERS categories run while another
\* waits, and one of them has max_workers rule requests in flight while a
\* rule waits
C17_Witness ==
    /\ BagCardinality(workers) = MAX_GLOBAL_WORKERS /\ cat_queue > 0
    /\ \E w \in BagToSet(workers) : w.running = max_workers /\ w.queued > 0

\* the steps of one task within a run: Pending (created, or waiting at the
\* semaphore) -> InFlight -> Completed | Failed | raised
ItemSteps ==
    { <<"created", "inflight">>, <<"created", "waiting">>, <<"waiting", "inflight">>,
      <<"inflight", "completed">>, <<"inflight", "failed">>, <<"inflight", "raised">> }

\* C18: within one run of SonarRuleScraper.run every task moves only along
\* Pending -> InFlight -> {Completed, Failed}: a task that has ended is never
\* dispatched again in that run, and no two tasks of the run have the same
\* URL, so no URL has two fetches in flight.
C18_ItemStateMachine ==
    [][ (prog = "sonar" /\ run' = run /\ pc' # "killed" /\ st # <<>>) =>
          /\ pending' = pending
          /\ NoRepeat(pending)
          /\ \A i \in 1..Len(pending) :
               st'[i] = st[i] \/ <<st[i], st'[i]>> \in ItemSteps ]_vars

\* a run with a completed, a failed, an in-flight, a waiting and a not yet
\* dispatched task
C18_Witness ==
    /\ prog = "sonar" /\ pc = "gather"
    /\ \A what \in {"completed", "failed", "inflight", "waiting", "created"} :
         Count(st, what) >= 1

\* the hrefs the listing pages before page p show
SeenBefore(p) == UNION {SeqToSet(ListingPage(q)) : q \in 1..(p - 1)}

\* the links of page p that no page before it shows
NewOn(p) == FoundOnPage(ListingPage(p), SeenBefore(p))

RECURSIVE LinksUpTo(_)
LinksUpTo(p) == IF p = 0 THEN <<>> ELSE LinksUpTo(p - 1) \o NewOn(p)

\* C19 (stop rule): when get_rule_links has stopped at page `page`, every
\* page before it was fetched and showed at least MinPageSize new links; the
\* stopping page could not be fetched or showed no new link (links are those
\* of the pages before it), or showed fewer than MinPageSize new links, which
\* are included.
StopRule ==
    (prog = "sonar" /\ pc = "links_done") =>
       /\ \A p \in 1..(page - 1) : Len(NewOn(p)) >= MinPageSize
       /\ \/ links = LinksUpTo(page - 1)
          \/ links = LinksUpTo(page) /\ Len(NewOn(page)) < MinPageSize

\* C19 (order): the listing pages are requested in increasing order, one at
\* a time, and none after get_rule_links has stopped.
PagesInOrder ==
    [][ (prog = "sonar" /\ run' = run /\ pc' # "killed") =>
          /\ page' \in {page, page + 1}
          /\ (pc = "links_done" => (page' = page /\ ~listFetch')) ]_vars

\* C19: the pagination stop rule of get_rule_links, and a site that does not
\* paginate (it shows the same page whatever ?page says) gets one listing
\* request only.
C19_PaginationStopRule ==
    /\ StopRule
    /\ (prog = "sonar" /\ site = "unpaged" /\ pc \in {"list_wait", "links_done"})
         => page = 1

\* C20: the semaphore is taken once before each fetch and given back once
\* after it, whatever the fetch ended with: in every state the permits left
\* plus the fetches in flight are C, so when every fetch has ended the
\* permits are C again.
C20_GateExceptionSafe ==
    /\ prog = "sonar" =>
         /\ semaphore >= 0
         /\ semaphore + SonarInFlight = concurrency
    /\ prog = "pmd" =>
         /\ sem >= 0
         /\ sem + Count(rs_state, "inflight") = CONCURRENCY

\* a Sonar run has ended with more failed fetches than permits, and every
\* permit is back
C20_Witness ==
    /\ prog = "sonar" /\ pc = "done"
    /\ Count(st, "failed") > concurrency
    /\ Count(st, "completed") >= 1
    /\ semaphore = concurrency

\* the run has ended: it returned or raised
RunOver == pc \in {"done", "crashed"}

\* every task has ended and the final save is done
RunComplete == pc = "done" /\ AllEnded(st) /\ files[OutFile] = results

\* C21: a run of SonarRuleScraper.run whose requests all return, on a site
\* with finitely many rule links, eventually ends with every pending item
\* completed or failed and the final save performed (unless the file system
\* refuses the save).
C21_Termination == <>(RunComplete \/ fault = "storage")

\* every run ends, one way or the other
C21_RunEnds == <>RunOver

\* the discovered URLs without a loaded record, in the order of discovery
NotLoaded ==
    LET keep(u) == \A k \in 1..Len(existing) : existing[k].url # BaseJoin(u)
    IN SelectSeq(Normalized(links), keep)

\* C22: SonarRuleScraper keeps nothing of a failed item: no file content has
\* a record of a task that has not completed, so in the next run the pending
\* items are exactly the discovered URLs without a loaded record, each once,
\* the items that failed before among them like the never attempted ones.
C22_FailedNotRemembered ==
    prog = "sonar" =>
      /\ \A i \in 1..Len(st) :
           st[i] # "completed" => BaseJoin(pending[i]) \notin OnDisk
      /\ TasksBuilt => (pending = NotLoaded /\ NoRepeat(pending))

\* the first run reached its final save with a record for some rules only;
\* the second run loaded them, and a rule that failed in the first run is
\* fetched again
C22_Witness ==
    /\ prog = "sonar" /\ run = 2 /\ prevExit = "done"
    /\ Len(existing) >= 1
    /\ Len(existing) + Len(pending) = NumRules
    /\ \E i \in 1..Len(pending) : st[i] \in {"inflight", "completed"}

UniqueUrls(recs) ==
    \A i, j \in 1..Len(recs) : i # j => recs[i].url # recs[j].url

\* run is past the building of its tasks and has not ended
Harvesting == pc \in {"chunk", "gather", "save_open", "save_write", "save_replace"}

\* C23: over consecutive resumed runs that start from a file without two
\* records of one URL, self.results and every content of the temporary and
\* the output file have no two records of one URL, and once harvesting has
\* started self.results only grows at its end.
C23_UniqueRecordUrls ==
    [][ prog = "sonar" =>
          /\ UniqueUrls(results'.recs)
          /\ \A name \in {OutFile, TmpPath(OutFile)} : UniqueUrls(files'[name].recs)
          /\ (Harvesting /\ run' = run /\ pc' # "killed")
               => IsPrefix(results.recs, results'.recs) ]_vars

\* a resumed run has added records to the loaded ones and saved a record for
\* every rule
C23_Witness ==
    /\ prog = "sonar" /\ run = 2 /\ pc = "done"
    /\ existing # <<>>
    /\ Len(results.recs) > Len(existing)
    /\ Len(files[OutFile].recs) = NumRules

\* ---------------------------------------------------------------------
\* C24  category-level failure isolation
\* ---------------------------------------------------------------------

\* the categories whose scrape ran to its end (the index page was parsed)
Scraped == {c \in Cats : rule_links[c] # <<>>}

\* the places of the entries of category c in a list of category entries
EntriesOf(c, out) ==
    {k \in 1..Len(out) :
        /\ "category" \in DOMAIN out[k]
        /\ out[k].category = FinalJson(c, <<>>).category}

\* C24: in the Checkstyle run, whichever categories fail (no index page, or
\* an exception inside the scraper), the entry point can always go on to
\* the write once every category task has returned, and the combined file
\* then holds exactly one entry for each category that did not fail, equal
\* to the final_json of that category with the records it collected, and
\* no entry for a failed category.
C24_CategoryFailureIsolation ==
    prog = "checkstyle" =>
      /\ (mpc = "pool" /\ \A c \in Cats : cat_state[c] = "returned")
            => ENABLED Main_Write
      /\ combined_file.written =>
            LET out == combined_file.checkstyle_categories
            IN /\ \A c \in Cats : cat_state[c] = "returned"
               /\ \A c \in Scraped :
                     \E k \in 1..Len(out) :
                        /\ EntriesOf(c, out) = {k}
                        /\ out[k] = FinalJson(c, rules[c])
               /\ \A c \in Cats \ Scraped : EntriesOf(c, out) = {}
               /\ Len(out) = Cardinality(Scraped)

\* the combined file written after one category failed and another one
\* collected at least one record
C24_Witness ==
    /\ prog = "checkstyle" /\ combined_file.written
    /\ Cats \ Scraped # {}
    /\ \E c \in Scraped : rules[c] # <<>>
    /\ Len(combined_file.checkstyle_categories) = Cardinality(Scraped)
====
